---- MODULE Spec2Model ----
(***************************************************************************)
(* Model of sail's runner (runner.go): assembling the mounts and labels of *)
(* a development container, creating and starting it through the Docker    *)
(* engine, and recovering a runner from an existing container.             *)
(*                                                                         *)
(* Strings are sequences of tokens: "~/.config/Code" is                    *)
(* <<"~", "/.config/Code">>, the share value "/host/x:/guest/y" is         *)
(* <<"/host/x", ":", "/guest/y">>.  Concatenation is \o, strings.Split and *)
(* strings.HasPrefix work on the tokens.                                   *)
(***************************************************************************)
EXTENDS Integers, Sequences, FiniteSets, TLC

VARIABLES
    imgLabels,      \* image: ContainerConfig.Labels (share.* and sail* labels)
    imgConfLabels,  \* image: Config.Labels (project_root)
    fresh,          \* the runner built by the caller from its inputs
    r,              \* the receiver of the running runContainer call
    pc,             \* position inside runContainer
    inv,            \* number of runContainer calls begun
    mnts,           \* local `mounts` of runner.mounts
    rawMnts,        \* the list imageDefinedMounts returned, before resolveMounts
    outMounts,      \* the list runner.mounts returned to runContainer
    projectDir,     \* local `projectDir` of runContainer
    labels,         \* containerConfig.Labels
    result,         \* what the current runContainer call returned
    failedBefore,   \* an earlier runContainer call returned an engine or filesystem error
    calls,          \* mutating engine calls issued by the current runContainer
    faulted,        \* the engine or filesystem failed or stalled in this call
    elapsed,        \* seconds since the current runContainer call began
    cntState,       \* engine: "absent", "created" or "running" (container cntName)
    cntConfig,      \* engine: the creation request stored with the container
    creator,        \* the runner whose runContainer created the container
    dirExists,      \* host filesystem: the globalStorage directory exists
    recovered,      \* what the last runnerFromContainer returned
    input,          \* stripDuplicateMounts: argument
    once,           \* stripDuplicateMounts(input)
    twice,          \* stripDuplicateMounts(stripDuplicateMounts(input))
    spc             \* position of the stripDuplicateMounts harness

vars == <<imgLabels, imgConfLabels, fresh, r, pc, inv, mnts, rawMnts, outMounts,
          projectDir, labels, result, failedBefore, calls, faulted, elapsed,
          cntState, cntConfig, creator, dirExists, recovered,
          input, once, twice, spc>>

runVars == <<imgLabels, imgConfLabels, fresh, r, pc, inv, mnts, rawMnts, outMounts,
             projectDir, labels, result, failedBefore, calls, faulted, elapsed,
             cntState, cntConfig, creator, dirExists, recovered>>

stripVars == <<input, once, twice, spc>>

----------------------------------------------------------------------------
(* Bounds *)

MaxInvocations == 2

MaxLen == 3

Slow == 20

(* Program constants *)

Timeout == 30

----------------------------------------------------------------------------
(* Strings *)

HasPrefix(s, prefix) ==
    /\ Len(s) >= Len(prefix)
    /\ SubSeq(s, 1, Len(prefix)) = prefix

RECURSIVE SplitAcc(_, _, _, _)
SplitAcc(s, sep, cur, acc) ==
    IF s = <<>> THEN Append(acc, cur)
    ELSE IF Head(s) = sep THEN SplitAcc(Tail(s), sep, <<>>, Append(acc, cur))
    ELSE SplitAcc(Tail(s), sep, Append(cur, Head(s)), acc)

Split(s, sep) == SplitAcc(s, sep, <<>>, <<>>)

Join(dir, name) == dir \o <<"/">> \o name

IsAbs(p) == p # <<>> /\ Head(p) \notin {"~", "rel"}

hostHomeDir == <<"/home/u">>

hostCwd == <<"/cwd">>

Abs(p) == IF IsAbs(p) THEN p ELSE Join(hostCwd, p)

guestHomeDir == <<"/home/user">>

resolvePath(homedir, path) ==
    IF path # <<>> /\ Head(path) = "~" THEN homedir \o Tail(path) ELSE path

----------------------------------------------------------------------------
(* Labels *)

sailLabel == <<"sail">>

projectLocalDirLabel == sailLabel \o <<".project_local_dir">>

projectDirLabel == sailLabel \o <<".project_dir">>

projectNameLabel == sailLabel \o <<".project_name">>

hatLabel == sailLabel \o <<".hat">>

sharePrefix == <<"share.">>

projectRootKey == <<"project_root">>

----------------------------------------------------------------------------
(* Mounts *)

Mount(source, target) == [Type |-> "bind", Source |-> source, Target |-> target]

Targets(mounts) == {mounts[i].Target : i \in 1..Len(mounts)}

metaRoot == <<"/meta">>

codeServerBinPath == <<"/cache/code-server">>

containerLogPath == <<"/tmp/code-server.log">>

configMount == Mount(<<"~", "/.config/Code">>, <<"~", "/.config/Code">>)

extensionsMount == Mount(<<"~", "/.vscode/extensions">>, <<"~", "/.vscode/extensions">>)

localGlobalStorageDir(rr) == Join(Join(metaRoot, rr.cntName), <<"globalStorage">>)

globalStorageMount(rr) ==
    Mount(localGlobalStorageDir(rr), <<"~", "/.local/share/code-server/globalStorage/">>)

projectDirOf(rr, confLabels) ==
    IF projectRootKey \in DOMAIN confLabels
    THEN Join(confLabels[projectRootKey], rr.projectName)
    ELSE Join(guestHomeDir, rr.projectName)

projectMount(rr, confLabels) == Mount(rr.projectLocalDir, projectDirOf(rr, confLabels))

codeServerMount == Mount(codeServerBinPath, <<"/usr/bin/code-server">>)

(* the mounts mounts() appends before it reads the image's shares *)
builtinMounts(rr, confLabels) ==
    <<configMount, extensionsMount, globalStorageMount(rr),
      projectMount(rr, confLabels), codeServerMount>>

NoErr == [kind |-> "ok", arg |-> <<>>]

Err(kind, arg) == [kind |-> kind, arg |-> arg]

(* imageDefinedMounts accepting any value with a colon in it *)
RECURSIVE imageDefinedMountsLax(_, _, _)
imageDefinedMountsLax(imageLabels, order, mounts) ==
    IF order = <<>> THEN [err |-> NoErr, mounts |-> mounts]
    ELSE LET k == Head(order)
             v == imageLabels[k]
             tokens == Split(v, ":")
         IN  IF ~HasPrefix(k, sharePrefix)
             THEN imageDefinedMountsLax(imageLabels, Tail(order), mounts)
             ELSE IF Len(tokens) < 2
             THEN [err |-> Err("invalid share", v), mounts |-> <<>>]
             ELSE imageDefinedMountsLax(imageLabels, Tail(order),
                                        Append(mounts, Mount(tokens[1], tokens[2])))

(* The loop of imageDefinedMounts over the image's labels, visited in `order`
   (Go leaves the iteration order of a map unspecified). *)
RECURSIVE imageDefinedMounts(_, _, _)
imageDefinedMounts(imageLabels, order, mounts) ==
    IF order = <<>> THEN [err |-> NoErr, mounts |-> mounts]
    ELSE LET k == Head(order)
             v == imageLabels[k]
             tokens == Split(v, ":")
         IN  IF ~HasPrefix(k, sharePrefix)
             THEN imageDefinedMounts(imageLabels, Tail(order), mounts)
             ELSE IF Len(tokens) # 2
             THEN [err |-> Err("invalid share", v), mounts |-> <<>>]
             ELSE imageDefinedMounts(imageLabels, Tail(order),
                                     Append(mounts, Mount(tokens[1], tokens[2])))

resolveMounts(mounts) ==
    [i \in 1..Len(mounts) |->
        [mounts[i] EXCEPT !.Source = Abs(resolvePath(hostHomeDir, @)),
                          !.Target = resolvePath(guestHomeDir, @)]]

RECURSIVE stripLoop(_, _, _)
stripLoop(mounts, dests, rmounts) ==
    IF mounts = <<>> THEN rmounts
    ELSE LET mnt == Head(mounts)
         IN  IF mnt.Target \in dests
             THEN stripLoop(Tail(mounts), dests, rmounts)
             ELSE stripLoop(Tail(mounts), dests \cup {mnt.Target}, Append(rmounts, mnt))

(* stripDuplicateMounts that never records a target in dests *)
RECURSIVE stripLoopForgetful(_, _, _)
stripLoopForgetful(mounts, dests, rmounts) ==
    IF mounts = <<>> THEN rmounts
    ELSE LET mnt == Head(mounts)
         IN  IF mnt.Target \in dests
             THEN stripLoopForgetful(Tail(mounts), dests, rmounts)
             ELSE stripLoopForgetful(Tail(mounts), dests, Append(rmounts, mnt))

stripForgetful(mounts) == stripLoopForgetful(mounts, {}, <<>>)

stripDuplicateMounts(mounts) == stripLoop(mounts, {}, <<>>)

----------------------------------------------------------------------------
(* Container configuration *)

IsSailKey(k) == HasPrefix(k, sailLabel)

fixedLabels(rr, pdir) ==
    (sailLabel :> <<>>) @@ (projectDirLabel :> pdir)
        @@ (projectLocalDirLabel :> rr.projectLocalDir)
        @@ (projectNameLabel :> rr.projectName)

addImageDefinedLabels(imageLabels, lbls) ==
    LET copied == {k \in DOMAIN imageLabels : IsSailKey(k)}
    IN  [k \in DOMAIN lbls \cup copied |->
            IF k \in copied THEN imageLabels[k] ELSE lbls[k]]

containerUser(rr) == rr.hostUser \o <<":user">>

containerCmd(rr, pdir) ==
    IF rr.testCmd # <<>>
    THEN rr.testCmd \o <<"; exit 1">>
    ELSE <<"cd ">> \o pdir \o <<"; code-server 2>&1 | tee ">> \o containerLogPath

containerConfig(rr, pdir, lbls, mounts) ==
    [Hostname |-> rr.hostname,
     Cmd      |-> containerCmd(rr, pdir),
     User     |-> containerUser(rr),
     Labels   |-> lbls,
     Mounts   |-> mounts,
     Network  |-> rr.network,
     IP       |-> rr.ip]

----------------------------------------------------------------------------
(* Inputs: the image's labels and the caller's runner *)

Absent == <<"<absent>">>

shareA == sharePrefix \o <<"a">>

shareB == sharePrefix \o <<"b">>

maintainerKey == <<"maintainer">>

ShareAValues ==
    { <<"/host/x", ":", "/guest/y">>,
      <<"/host/z", ":", "~", "/.config/Code">>,
      <<"/host/z", ":", "/home/user", "/.config/Code">>,
      <<"/host/b", ":", "/usr/bin/code-server">>,
      <<"a", ":", "b", ":", "c">>,
      <<"noseparator">> }

ShareBValues ==
    { <<"/host/w", ":", "/guest/y">>,
      <<"rel", "/q", ":", "/home/user", "/", "P">>,
      <<"noseparator">> }

(* hat, project name and maintainer labels of the image: a base image with no
   reserved label, a hat image, and images that declare sail.project_name *)
OtherLabels ==
    { <<Absent, Absent, Absent>>,
      <<<<"ubuntu-dev">>, Absent, <<"someone">>>>,
      <<Absent, <<"X">>, <<"someone">>>> }

(* project_root label of the image and override command of the runner *)
CallerInputs ==
    { <<Absent, <<>>>>, <<<<"/data">>, <<>>>>, <<Absent, <<"true">>>> }

Restrict(f, D) == [k \in D |-> f[k]]

Present(f) == Restrict(f, {k \in DOMAIN f : f[k] # Absent})

ImageLabels(a, b, hat, name, m) ==
    Present((shareA :> a) @@ (shareB :> b) @@ (hatLabel :> hat)
                @@ (projectNameLabel :> name) @@ (maintainerKey :> m))

ImageConfLabels(root) == Present(projectRootKey :> root)

Runner(testCmd) ==
    [cntName         |-> <<"N">>,
     projectName     |-> <<"P">>,
     hostname        |-> <<"P">>,
     projectLocalDir |-> <<"/home/u", "/", "P">>,
     hostUser        |-> <<"1000">>,
     network         |-> <<"sail">>,
     ip              |-> <<"172.18.0.2">>,
     testCmd         |-> testCmd]

NoRunner ==
    [cntName |-> <<>>, projectName |-> <<>>, hostname |-> <<>>,
     projectLocalDir |-> <<>>, hostUser |-> <<>>, network |-> <<>>,
     ip |-> <<>>, testCmd |-> <<>>]

NoConfig == containerConfig(NoRunner, <<>>, <<>>, <<>>)

NoResult == [kind |-> "none", arg |-> <<>>]

NotRecovered == [kind |-> "none", runner |-> NoRunner]

(* The orders in which a Go range loop may visit the keys of a map *)
RECURSIVE Orders(_)
Orders(S) ==
    IF S = {} THEN {<<>>}
    ELSE UNION {{<<k>> \o o : o \in Orders(S \ {k})} : k \in S}

DelaySet == {0, Slow}

----------------------------------------------------------------------------
(* Initial state *)

InitStrip ==
    /\ input = <<>>
    /\ once = <<>>
    /\ twice = <<>>
    /\ spc = "off"

InitRun ==
    /\ \E a \in ShareAValues \cup {Absent}, b \in ShareBValues \cup {Absent},
          other \in OtherLabels :
            imgLabels = ImageLabels(a, b, other[1], other[2], other[3])
    /\ \E c \in CallerInputs :
            /\ imgConfLabels = ImageConfLabels(c[1])
            /\ fresh = Runner(c[2])
    /\ r = NoRunner
    /\ pc = "idle"
    /\ inv = 0
    /\ mnts = <<>>
    /\ rawMnts = <<>>
    /\ outMounts = <<>>
    /\ projectDir = <<>>
    /\ labels = <<>>
    /\ result = NoResult
    /\ failedBefore = FALSE
    /\ calls = <<>>
    /\ faulted = FALSE
    /\ elapsed = 0
    /\ cntState = "absent"
    /\ cntConfig = NoConfig
    /\ creator = NoRunner
    /\ dirExists = FALSE
    /\ recovered = NotRecovered

Init == InitRun /\ InitStrip

----------------------------------------------------------------------------
(* runContainer, runner.go:57-132, one action per call that can fail *)

(* the errors of runContainer that come from the filesystem or the engine *)
EnvErrors == {"mkdir", "inspect", "create", "start"}

(* return err *)
Return(err) ==
    /\ result' = err
    /\ pc' = "done"

(* A call made with context.Background(): it lasts as long as the engine takes.
   Delays are no longer counted once the deadline has passed. *)
Unbounded(d) ==
    /\ elapsed > Timeout => d = 0
    /\ elapsed' = elapsed + d

(* runContainer is entered: the context is created and mounts() appends the two
   editor mounts. *)
Begin ==
    /\ pc \in {"idle", "done"}
    /\ inv < MaxInvocations
    /\ r' = fresh
    /\ inv' = inv + 1
    /\ failedBefore' = (failedBefore \/ result.kind \in EnvErrors)
    /\ result' = NoResult
    /\ calls' = <<>>
    /\ faulted' = FALSE
    /\ elapsed' = 0
    /\ mnts' = <<configMount, extensionsMount>>
    /\ rawMnts' = <<>>
    /\ outMounts' = <<>>
    /\ projectDir' = <<>>
    /\ labels' = <<>>
    /\ pc' = "mkdir"
    /\ UNCHANGED stripVars
    /\ recovered' = NotRecovered
    /\ UNCHANGED <<imgLabels, imgConfLabels, fresh, cntState, cntConfig, creator,
                   dirExists>>

(* os.MkdirAll(localGlobalStorageDir, 0750): nil when the directory exists *)
MkdirAll ==
    /\ pc = "mkdir"
    /\ \E ok \in BOOLEAN :
        IF ok \/ dirExists
        THEN /\ dirExists' = TRUE
             /\ mnts' = Append(mnts, globalStorageMount(r))
             /\ pc' = "mountsProjectDir"
             /\ UNCHANGED <<result, faulted>>
        ELSE /\ Return(Err("mkdir", localGlobalStorageDir(r)))
             /\ faulted' = TRUE
             /\ UNCHANGED <<dirExists, mnts>>
    /\ UNCHANGED stripVars
    /\ UNCHANGED <<imgLabels, imgConfLabels, fresh, r, inv, rawMnts, outMounts,
                   projectDir, labels, failedBefore, calls, elapsed, cntState,
                   cntConfig, creator, recovered>>

(* mounts(): r.projectDir(image) and the project mount *)
MountsProjectDir ==
    /\ pc = "mountsProjectDir"
    /\ \E ok \in BOOLEAN, d \in DelaySet :
        /\ Unbounded(d)
        /\ faulted' = (faulted \/ ~ok \/ d > 0)
        /\ IF ok
           THEN /\ mnts' = Append(mnts, projectMount(r, imgConfLabels))
                /\ pc' = "loadCodeServer"
                /\ UNCHANGED result
           ELSE /\ Return(Err("inspect", <<"image">>))
                /\ UNCHANGED mnts
    /\ UNCHANGED stripVars
    /\ UNCHANGED <<imgLabels, imgConfLabels, fresh, r, inv, rawMnts, outMounts,
                   projectDir, labels, failedBefore, calls, cntState, cntConfig,
                   creator, dirExists, recovered>>

(* mounts(): loadCodeServer and the binary mount *)
LoadCodeServer ==
    /\ pc = "loadCodeServer"
    /\ \E ok \in BOOLEAN :
        /\ faulted' = (faulted \/ ~ok)
        /\ IF ok
           THEN /\ mnts' = Append(mnts, codeServerMount)
                /\ pc' = "imageDefinedMounts"
                /\ UNCHANGED result
           ELSE /\ Return(Err("load code-server", <<>>))
                /\ UNCHANGED mnts
    /\ UNCHANGED stripVars
    /\ UNCHANGED <<imgLabels, imgConfLabels, fresh, r, inv, rawMnts, outMounts,
                   projectDir, labels, failedBefore, calls, elapsed, cntState,
                   cntConfig, creator, dirExists, recovered>>

(* What mounts() does with the list once the built-in mounts are in it:
   imageDefinedMounts, then resolveMounts. *)
assembleMounts(imageLabels, order, mounts) ==
    LET got == imageDefinedMounts(imageLabels, order, mounts)
    IN  IF got.err # NoErr
        THEN [err |-> got.err, raw |-> <<>>, mounts |-> <<>>]
        ELSE [err |-> NoErr, raw |-> got.mounts, mounts |-> resolveMounts(got.mounts)]

(* mounts(): r.imageDefinedMounts(image, mounts), r.resolveMounts(mounts), return *)
ImageDefinedMounts ==
    /\ pc = "imageDefinedMounts"
    /\ \E ok \in BOOLEAN, d \in DelaySet, homeOk \in BOOLEAN :
        /\ Unbounded(d)
        /\ faulted' = (faulted \/ ~ok \/ d > 0 \/ ~homeOk)
        /\ IF ~ok
           THEN /\ Return(Err("inspect", <<"image">>))
                /\ UNCHANGED <<mnts, rawMnts, outMounts>>
           ELSE \E order \in Orders(DOMAIN imgLabels) :
                LET got == assembleMounts(imgLabels, order, mnts)
                IN  IF got.err # NoErr
                    THEN /\ Return(got.err)
                         /\ UNCHANGED <<mnts, rawMnts, outMounts>>
                    ELSE IF ~homeOk
                    THEN /\ pc' = "panicked"
                         /\ rawMnts' = got.raw
                         /\ UNCHANGED <<mnts, outMounts, result>>
                    ELSE /\ rawMnts' = got.raw
                         /\ mnts' = got.mounts
                         /\ outMounts' = got.mounts
                         /\ pc' = "projectDir"
                         /\ UNCHANGED result
    /\ UNCHANGED stripVars
    /\ UNCHANGED <<imgLabels, imgConfLabels, fresh, r, inv, projectDir, labels,
                   failedBefore, calls, cntState, cntConfig, creator, dirExists,
                   recovered>>

(* runContainer: r.projectDir(image) *)
ProjectDir ==
    /\ pc = "projectDir"
    /\ \E ok \in BOOLEAN, d \in DelaySet :
        /\ Unbounded(d)
        /\ faulted' = (faulted \/ ~ok \/ d > 0)
        /\ IF ok
           THEN /\ projectDir' = projectDirOf(r, imgConfLabels)
                /\ pc' = "addImageDefinedLabels"
                /\ UNCHANGED result
           ELSE /\ Return(Err("inspect", <<"image">>))
                /\ UNCHANGED projectDir
    /\ UNCHANGED stripVars
    /\ UNCHANGED <<imgLabels, imgConfLabels, fresh, r, inv, mnts, rawMnts, outMounts,
                   labels, failedBefore, calls, cntState, cntConfig, creator,
                   dirExists, recovered>>

(* runContainer: the fixed labels, then r.addImageDefinedLabels *)
AddImageDefinedLabels ==
    /\ pc = "addImageDefinedLabels"
    /\ \E ok \in BOOLEAN, d \in DelaySet :
        /\ Unbounded(d)
        /\ faulted' = (faulted \/ ~ok \/ d > 0)
        /\ IF ok
           THEN /\ labels' = addImageDefinedLabels(imgLabels, fixedLabels(r, projectDir))
                /\ pc' = "create"
                /\ UNCHANGED result
           ELSE /\ Return(Err("inspect", <<"image">>))
                /\ labels' = fixedLabels(r, projectDir)
    /\ UNCHANGED stripVars
    /\ UNCHANGED <<imgLabels, imgConfLabels, fresh, r, inv, mnts, rawMnts, outMounts,
                   projectDir, failedBefore, calls, cntState, cntConfig, creator,
                   dirExists, recovered>>

(* A call made with ctx: it is cancelled when the 30 seconds are over.  True when
   the engine, answering after d seconds, answers in time.  A cancelled request
   is taken not to have changed the engine. *)
InTime(d) == elapsed + d < Timeout

Cancelled == elapsed' = (IF elapsed > Timeout THEN elapsed ELSE Timeout)

Call(op, ok) == [op |-> op, ok |-> ok]

(* runContainer: cli.ContainerCreate(ctx, containerConfig, hostConfig, netConfig,
   r.cntName).  The engine refuses a name that is in use. *)
ContainerCreate ==
    /\ pc = "create"
    /\ LET req == containerConfig(r, projectDir, labels, outMounts)
       IN  \/ /\ \E d \in DelaySet : ~InTime(d)
              /\ Cancelled
              /\ calls' = Append(calls, Call("create", FALSE))
              /\ Return(Err("create", <<"context deadline exceeded">>))
              /\ faulted' = TRUE
              /\ UNCHANGED <<cntState, cntConfig, creator>>
           \/ \E d \in DelaySet, ok \in BOOLEAN :
              /\ InTime(d)
              /\ elapsed' = elapsed + d
              /\ faulted' = (faulted \/ ~ok \/ d > 0)
              /\ IF cntState # "absent"
                 THEN /\ calls' = Append(calls, Call("create", FALSE))
                      /\ Return(Err("create", <<"name in use">>))
                      /\ UNCHANGED <<cntState, cntConfig, creator>>
                 ELSE IF ~ok
                 THEN /\ calls' = Append(calls, Call("create", FALSE))
                      /\ Return(Err("create", <<"engine error">>))
                      /\ UNCHANGED <<cntState, cntConfig, creator>>
                 ELSE /\ calls' = Append(calls, Call("create", TRUE))
                      /\ cntState' = "created"
                      /\ cntConfig' = req
                      /\ creator' = r
                      /\ pc' = "start"
                      /\ UNCHANGED result
    /\ UNCHANGED stripVars
    /\ UNCHANGED <<imgLabels, imgConfLabels, fresh, r, inv, mnts, rawMnts, outMounts,
                   projectDir, labels, failedBefore, dirExists, recovered>>

(* ContainerStart that removes the container again when the start fails *)
ContainerStartRollback ==
    /\ pc = "start"
    /\ \E ok \in BOOLEAN :
          IF ok /\ cntState = "created"
          THEN /\ calls' = Append(calls, Call("start", TRUE))
               /\ cntState' = "running"
               /\ Return(NoErr)
               /\ UNCHANGED faulted
          ELSE /\ calls' = calls \o <<Call("start", FALSE), Call("remove", TRUE)>>
               /\ cntState' = "absent"
               /\ Return(Err("start", <<"engine error">>))
               /\ faulted' = TRUE
    /\ UNCHANGED stripVars
    /\ UNCHANGED <<imgLabels, imgConfLabels, fresh, r, inv, mnts, rawMnts, outMounts,
                   projectDir, labels, failedBefore, elapsed, cntConfig, creator,
                   dirExists, recovered>>

(* runContainer: cli.ContainerStart(ctx, r.cntName, ...), return nil *)
ContainerStart ==
    /\ pc = "start"
    /\ \/ /\ \E d \in DelaySet : ~InTime(d)
          /\ Cancelled
          /\ calls' = Append(calls, Call("start", FALSE))
          /\ Return(Err("start", <<"context deadline exceeded">>))
          /\ faulted' = TRUE
          /\ UNCHANGED cntState
       \/ \E d \in DelaySet, ok \in BOOLEAN :
          /\ InTime(d)
          /\ elapsed' = elapsed + d
          /\ faulted' = (faulted \/ ~ok \/ d > 0)
          /\ IF ok /\ cntState = "created"
             THEN /\ calls' = Append(calls, Call("start", TRUE))
                  /\ cntState' = "running"
                  /\ Return(NoErr)
             ELSE /\ calls' = Append(calls, Call("start", FALSE))
                  /\ Return(Err("start", <<"engine error">>))
                  /\ UNCHANGED cntState
    /\ UNCHANGED stripVars
    /\ UNCHANGED <<imgLabels, imgConfLabels, fresh, r, inv, mnts, rawMnts, outMounts,
                   projectDir, labels, failedBefore, cntConfig, creator, dirExists,
                   recovered>>

----------------------------------------------------------------------------
(* runnerFromContainer, runner.go:298-322 *)

runnerFromContainer(name, network, cnt, ip) ==
    [cntName         |-> name,
     projectName     |-> cnt.Labels[projectNameLabel],
     hostname        |-> cnt.Hostname,
     projectLocalDir |-> cnt.Labels[projectLocalDirLabel],
     hostUser        |-> cnt.User,
     network         |-> network,
     ip              |-> ip,
     testCmd         |-> <<>>]

RunnerFromContainer ==
    /\ pc \in {"idle", "done"}
    /\ \E ok \in BOOLEAN, ipOk \in BOOLEAN :
        recovered' =
            IF cntState = "absent" \/ ~ok
            THEN [kind |-> "inspect", runner |-> NoRunner]
            ELSE IF ~ipOk
            THEN [kind |-> "ip", runner |-> NoRunner]
            ELSE [kind |-> "ok",
                  runner |-> runnerFromContainer(fresh.cntName, fresh.network, cntConfig,
                                 IF cntState = "running" THEN cntConfig.IP ELSE <<>>)]
    /\ UNCHANGED stripVars
    /\ UNCHANGED <<imgLabels, imgConfLabels, fresh, r, pc, inv, mnts, rawMnts,
                   outMounts, projectDir, labels, result, failedBefore, calls, faulted,
                   elapsed, cntState, cntConfig, creator, dirExists>>

----------------------------------------------------------------------------
(* Specification of the runner *)

Next ==
    \/ Begin
    \/ MkdirAll
    \/ MountsProjectDir
    \/ LoadCodeServer
    \/ ImageDefinedMounts
    \/ ProjectDir
    \/ AddImageDefinedLabels
    \/ ContainerCreate
    \/ ContainerStart
    \/ RunnerFromContainer

Spec == Init /\ [][Next]_vars

----------------------------------------------------------------------------
(* stripDuplicateMounts applied to every list of at most MaxLen mounts *)

StripSources == {<<"/s1">>, <<"/s2">>}

StripTargets == {<<"/t1">>, <<"/t2">>, <<"/t3">>}

StripMounts == {Mount(s, t) : s \in StripSources, t \in StripTargets}

SeqsUpTo(S, n) == UNION {[1..k -> S] : k \in 0..n}

IdleRun ==
    /\ imgLabels = <<>>
    /\ imgConfLabels = <<>>
    /\ fresh = NoRunner
    /\ r = NoRunner
    /\ pc = "off"
    /\ inv = 0
    /\ mnts = <<>>
    /\ rawMnts = <<>>
    /\ outMounts = <<>>
    /\ projectDir = <<>>
    /\ labels = <<>>
    /\ result = NoResult
    /\ failedBefore = FALSE
    /\ calls = <<>>
    /\ faulted = FALSE
    /\ elapsed = 0
    /\ cntState = "absent"
    /\ cntConfig = NoConfig
    /\ creator = NoRunner
    /\ dirExists = FALSE
    /\ recovered = NotRecovered

InitStripSpec ==
    /\ IdleRun
    /\ input \in SeqsUpTo(StripMounts, MaxLen)
    /\ once = <<>>
    /\ twice = <<>>
    /\ spc = "start"

StripOnce ==
    /\ spc = "start"
    /\ once' = stripDuplicateMounts(input)
    /\ spc' = "once"
    /\ UNCHANGED <<input, twice>>
    /\ UNCHANGED runVars

StripTwice ==
    /\ spc = "once"
    /\ twice' = stripDuplicateMounts(once)
    /\ spc' = "twice"
    /\ UNCHANGED <<input, once>>
    /\ UNCHANGED runVars

NextStrip == StripOnce \/ StripTwice

SpecStrip == InitStripSpec /\ [][NextStrip]_vars

----------------------------------------------------------------------------
(* Properties *)

Range(seq) == {seq[i] : i \in 1..Len(seq)}

NoDuplicateTargets(mounts) ==
    \A i, j \in 1..Len(mounts) : i # j => mounts[i].Target # mounts[j].Target

(* index of the first mount of seq whose target is t *)
FirstIndex(seq, t) ==
    CHOOSE i \in 1..Len(seq) :
        /\ seq[i].Target = t
        /\ \A j \in 1..(i - 1) : seq[j].Target # t

ShareKeys == {k \in DOMAIN imgLabels : HasPrefix(k, sharePrefix)}

Malformed(v) == Len(Split(v, ":")) # 2

MalformedShares == {imgLabels[k] : k \in {x \in ShareKeys : Malformed(imgLabels[x])}}

(* the mount a well-formed share value declares *)
ShareMount(v) == Mount(Split(v, ":")[1], Split(v, ":")[2])

InCall == pc \notin {"idle", "off"}

MountsReturned == InCall /\ pc \in {"projectDir", "addImageDefinedLabels", "create", "start", "done"}
                         /\ outMounts # <<>>

(* C10: stripDuplicateMounts keeps, for every target of its argument, exactly the
   first mount with that target, in the argument's order, so that its result has no
   two mounts with one target; applied to its own result it changes nothing. *)
C10_StripKeepsFirstPerTarget ==
    /\ spc \in {"once", "twice"} =>
        /\ Targets(once) = Targets(input)
        /\ NoDuplicateTargets(once)
        /\ \A i \in 1..Len(once) : once[i] = input[FirstIndex(input, once[i].Target)]
        /\ \A i, j \in 1..Len(once) :
              i < j => FirstIndex(input, once[i].Target) < FirstIndex(input, once[j].Target)
    /\ spc = "twice" => twice = once

C10_Witness ==
    /\ spc = "twice"
    /\ Len(input) = 3
    /\ Len(once) = 2
    /\ input[1].Target = input[3].Target
    /\ input[1].Source # input[3].Source

(* C3: the mutating engine calls of one runContainer are a prefix of
   <create, start>, start only after a successful create, nothing after a failure
   and never a remove; a failed start leaves the created container in the engine
   and runContainer returns the start error. *)
C3_CallsPrefixOfCreateStart ==
    InCall =>
        /\ calls \in { <<>>,
                       <<Call("create", FALSE)>>,
                       <<Call("create", TRUE)>>,
                       <<Call("create", TRUE), Call("start", FALSE)>>,
                       <<Call("create", TRUE), Call("start", TRUE)>> }
        /\ (calls # <<>> /\ ~calls[Len(calls)].ok) => (pc = "done" /\ result.kind # "ok")
        /\ (pc = "done" /\ result = NoErr) =>
                calls = <<Call("create", TRUE), Call("start", TRUE)>>
        /\ calls = <<Call("create", TRUE), Call("start", FALSE)>> =>
                /\ pc = "done"
                /\ result.kind = "start"
                /\ cntState = "created"

C3_Witness ==
    /\ pc = "done"
    /\ calls = <<Call("create", TRUE), Call("start", FALSE)>>
    /\ result = Err("start", <<"engine error">>)
    /\ cntState = "created"

(* C7: with a share label whose value does not split on ":" into two tokens,
   runContainer returns an error without issuing create or start and no container
   appears; the error of the share parser names the raw value; every share value
   with exactly one colon yields the bind mount (first token, second token). *)
C7_MalformedShareAborts ==
    /\ (InCall /\ MalformedShares # {}) =>
        /\ pc \in {"mkdir", "mountsProjectDir", "loadCodeServer", "imageDefinedMounts", "done"}
        /\ calls = <<>>
        /\ cntState = "absent"
        /\ outMounts = <<>>
        /\ pc = "done" => result.kind \notin {"ok", "none"}
        /\ (pc = "done" /\ ~faulted) => result.kind = "invalid share"
    /\ (pc = "done" /\ result.kind = "invalid share") => result.arg \in MalformedShares
    /\ MountsReturned =>
        /\ MalformedShares = {}
        /\ Len(rawMnts) = 5 + Cardinality(ShareKeys)
        /\ \A k \in ShareKeys :
              \E i \in 6..Len(rawMnts) : rawMnts[i] = ShareMount(imgLabels[k])
        /\ outMounts = resolveMounts(rawMnts)

C7_Witness ==
    /\ pc = "done"
    /\ result = Err("invalid share", <<"a", ":", "b", ":", "c">>)
    /\ shareB \in DOMAIN imgLabels
    /\ ~Malformed(imgLabels[shareB])
    /\ calls = <<>>
    /\ cntState = "absent"

(* C1: in the list mounts() returns, a built-in mount wins over every share the
   image declares for the same target: the built-in mount is in the list and the
   share's mount is not. *)
C1_BuiltinMountsWin ==
    MountsReturned =>
        \A k \in ShareKeys :
            \A b \in Range(builtinMounts(r, imgConfLabels)) :
                ShareMount(imgLabels[k]).Target = b.Target =>
                    /\ resolveMounts(<<b>>)[1] \in Range(outMounts)
                    /\ resolveMounts(<<ShareMount(imgLabels[k])>>)[1] \notin Range(outMounts)

(* C2: the list mounts() returns, and the list stored with a created container,
   have no two mounts with the same target. *)
C2_NoTwoMountsShareTarget ==
    /\ MountsReturned => NoDuplicateTargets(outMounts)
    /\ cntState # "absent" => NoDuplicateTargets(cntConfig.Mounts)

(* C4: runnerFromContainer on a container that runContainer created gives back the
   creating runner's project name and local project directory, and the user string
   stored on the container. *)
C4_RecoveredFieldsAreCreators ==
    recovered.kind = "ok" =>
        /\ recovered.runner.projectName = creator.projectName
        /\ recovered.runner.projectLocalDir = creator.projectLocalDir
        /\ recovered.runner.hostUser = cntConfig.User

(* the request runContainer builds from runner rr when the labels are visited in `order` *)
requestOf(rr, order) ==
    LET pdir == projectDirOf(rr, imgConfLabels)
    IN  containerConfig(rr, pdir, addImageDefinedLabels(imgLabels, fixedLabels(rr, pdir)),
            assembleMounts(imgLabels, order, builtinMounts(rr, imgConfLabels)).mounts)

(* C5: after a successful runContainer without override command, the runner recovered
   from the container builds a request with the hostname, user, labels and mounts
   of the request the container was created from. *)
C5_RecoveredRunnerBuildsSameRequest ==
    (pc = "done" /\ result = NoErr /\ creator.testCmd = <<>> /\ recovered.kind = "ok") =>
        \E order \in Orders(DOMAIN imgLabels) :
            LET again == requestOf(recovered.runner, order)
            IN  /\ again.Hostname = cntConfig.Hostname
                /\ again.User = cntConfig.User
                /\ again.Labels = cntConfig.Labels
                /\ again.Mounts = cntConfig.Mounts

(* C6: a created container's labels hold the marker, the guest project directory,
   the runner's local project directory and project name, every reserved label of
   the image verbatim, and no other label of the image. *)
C6_LabelsOfCreatedContainer ==
    cntState # "absent" =>
        LET l == cntConfig.Labels
        IN  /\ sailLabel \in DOMAIN l
            /\ l[projectDirLabel] = projectDirOf(creator, imgConfLabels)
            /\ l[projectLocalDirLabel] = creator.projectLocalDir
            /\ l[projectNameLabel] = creator.projectName
            /\ \A k \in DOMAIN imgLabels :
                  IF IsSailKey(k) THEN k \in DOMAIN l /\ l[k] = imgLabels[k]
                  ELSE k \notin DOMAIN l

(* C8: runContainer is never still running, and never returns, later than 30
   seconds after it was called. *)
C8_NeverBlockedPastDeadline ==
    InCall => elapsed <= Timeout

(* C9: when a runContainer call has failed at directory creation, image inspection,
   create or start, the next call with the same runner and a well-formed image,
   answered without fault, succeeds and leaves the container running. *)
C9_RetryAfterErrorSucceeds ==
    ( /\ pc = "done"
      /\ inv >= 2
      /\ failedBefore
      /\ MalformedShares = {}
      /\ ~faulted ) =>
        /\ result = NoErr
        /\ cntState = "running"

====
